---- MODULE Spec2Model ----
(***************************************************************************)
(* Model of src/src/final.ts: a single-node proof-of-work ledger engine.   *)
(* Block / Transaction, TransactionPool (mempool + cache file), UTXOPool   *)
(* (ledger) and Blockchain (store, load/save window, verify, consensus,    *)
(* mining).                                                                *)
(*                                                                         *)
(* Conventions.                                                            *)
(*  - A block is a record with the five fields of class Block.  A hash is  *)
(*    a number in 0..HashSpace-1 (sha256 scaled down to HashBits bits);    *)
(*    the literal "fiat lux" of the genesis block is FIAT_LUX, a value no  *)
(*    hash can take.                                                       *)
(*  - The level store is dbCount (the "blockCount" record) and dbBlocks    *)
(*    (the "block_<n>" records, a function whose domain is the set of keys *)
(*    present).  A record holds the JSON text of a block; a text that      *)
(*    JSON.parse rejects is a record with ok = FALSE.                      *)
(*  - A process that is not running (its constructor threw) is the state   *)
(*    in which the last operation is a construction with ret = FALSE.      *)
(***************************************************************************)
EXTENDS Integers, Sequences, FiniteSets, TLC

VARIABLES
    blocks,     \* Blockchain.blocks: the in-memory block sequence
    memPool,    \* TransactionPool.memPool
    pool,       \* UTXOPool.pool: address -> balance (0 when the key is absent)
    dbCount,    \* level store: the "blockCount" record
    dbBlocks,   \* level store: the "block_<n>" records
    cacheFile,  \* the <nodeId>.transactions file
    clock,      \* wall clock in seconds, read by Blockchain.now()
    nsub,       \* number of submitTransaction calls made so far (bounds the run)
    nmine,      \* number of createBlock calls made so far (bounds the run)
    nadopt,     \* number of chains adopted by consensus so far (bounds the run)
    ncrash,     \* number of createBlock calls the process did not complete (bounds the run)
    chain,      \* history: the node's chain, block 0 up to its head
    op          \* history: the last completed operation and what it returned

vars == <<blocks, memPool, pool, dbCount, dbBlocks, cacheFile, clock, nsub, nmine, nadopt, ncrash, chain, op>>

(***************************************************************************)
(* Bounds of the model.                                                    *)
(***************************************************************************)
HashBits == 16          \* width of a hash (sha256 has 256 bits)
MaxMine == 11           \* createBlock calls in one run
MaxAdopt == 1           \* chains adopted by consensus in one run
MaxCrash == 1           \* interrupted createBlock calls in one run
MaxSubmit == 1          \* submitTransaction calls in one run
MaxClock == 2           \* the wall clock stops here

(***************************************************************************)
(* Program constants.                                                      *)
(***************************************************************************)
BLOCKS_IN_MEM == 10
DIFFICULTY == 4
MINING_REWARD == 50
MINING_SENDER == "<COINBASE>"
FIAT_LUX == 0 - 1

HashSpace == 2 ^ HashBits
TARGET == 2 ^ (HashBits - DIFFICULTY)

NodeId == "N"
Users == {"A", "B"}
Addresses == Users \cup {NodeId, "P", "Q", MINING_SENDER}

Transaction(senderAddress, recipientAddress, value) ==
    [senderAddress |-> senderAddress, recipientAddress |-> recipientAddress, value |-> value]

Block(blockNumber, transactions, timestamp, nonce, prevBlock) ==
    [blockNumber |-> blockNumber, transactions |-> transactions,
     timestamp |-> timestamp, nonce |-> nonce, prevBlock |-> prevBlock]

GENESIS_BLOCK == Block(0, <<>>, 0, 0, FIAT_LUX)

Last(s) == s[Len(s)]
Min(a, b) == IF a <= b THEN a ELSE b
Max(a, b) == IF a >= b THEN a ELSE b

(***************************************************************************)
(* Block.sha256: a deterministic digest of the canonical encoding of the   *)
(* five fields, transactions in order.  Every field enters the digest.     *)
(* The nonce enters with stride TARGET + 1, so that, as for sha256, a      *)
(* changed nonce gives a different digest and some nonce meets the target. *)
(***************************************************************************)
AddrCode(a) ==
    CASE a = "A" -> 1
      [] a = "B" -> 2
      [] a = NodeId -> 3
      [] a = "P" -> 4
      [] a = "Q" -> 5
      [] OTHER -> 6

TxCode(tx) == AddrCode(tx.senderAddress) * 101 + AddrCode(tx.recipientAddress) * 53 + tx.value + 1000

RECURSIVE TxsCode(_, _)
TxsCode(txs, acc) ==
    IF txs = <<>> THEN acc
    ELSE TxsCode(Tail(txs), (acc * 37 + TxCode(Head(txs))) % HashSpace)

sha256(b) ==
    (b.blockNumber * 2731 + TxsCode(b.transactions, 7) * 17 + b.timestamp * 1013
        + (b.prevBlock + 1) * 7 + b.nonce * (TARGET + 1) + 11) % HashSpace

isPoWValid(pow) == pow <= TARGET

(***************************************************************************)
(* Blockchain.verify (static).  The try/catch turns every violated rule    *)
(* into the result false.                                                  *)
(***************************************************************************)
\* verify with the block numbers tested in partial mode as well
verifyNumbersAlways(blks, partial) ==
    /\ Len(blks) # 0
    /\ (~partial => blks[1] = GENESIS_BLOCK)
    /\ \A i \in 2..Len(blks) :
          /\ blks[i].blockNumber = i - 1
          /\ blks[i].prevBlock = sha256(blks[i - 1])
          /\ isPoWValid(sha256(blks[i]))

verify(blks, partial) ==
    /\ Len(blks) # 0
    /\ (~partial => blks[1] = GENESIS_BLOCK)
    /\ \A i \in 2..Len(blks) :
          /\ (~partial => blks[i].blockNumber = i - 1)
          /\ blks[i].prevBlock = sha256(blks[i - 1])
          /\ isPoWValid(sha256(blks[i]))

(***************************************************************************)
(* Blockchain.mineBlock: the nonce search of the while loop, then the      *)
(* block built on the last in-memory block.                                *)
(***************************************************************************)
\* mineLoop with the nonce incremented before each test instead of after it
RECURSIVE mineLoopIncrementFirst(_)
mineLoopIncrementFirst(newBlock) ==
    LET next == [newBlock EXCEPT !.nonce = @ + 1]
    IN  IF isPoWValid(sha256(next)) THEN next ELSE mineLoopIncrementFirst(next)

RECURSIVE mineLoop(_)
mineLoop(newBlock) ==
    IF isPoWValid(sha256(newBlock)) THEN newBlock
    ELSE mineLoop([newBlock EXCEPT !.nonce = @ + 1])

\* mineBlock with the new block built on the first in-memory block
mineBlockOnFirst(blks, transactions, now) ==
    mineLoop(Block(Last(blks).blockNumber + 1, transactions, now, 0, sha256(Head(blks))))

mineBlock(blks, transactions, now) ==
    mineLoop(Block(Last(blks).blockNumber + 1, transactions, now, 0, sha256(Last(blks))))

(***************************************************************************)
(* UTXOPool.                                                               *)
(***************************************************************************)
EmptyPool == [a \in Addresses |-> 0]

getBalance(p, address) == p[address]

setBalance(p, address, balance) == [p EXCEPT ![address] = balance]

\* Both balances are read before either is written; the recipient is written last.
transact(p, sender, recipient, amount) ==
    LET balanceSender == getBalance(p, sender)
        balanceRecipient == getBalance(p, recipient)
    IN  setBalance(setBalance(p, sender, balanceSender - amount),
                   recipient, balanceRecipient + amount)

RECURSIVE applyTransactions(_, _)
applyTransactions(p, txs) ==
    IF txs = <<>> THEN p
    ELSE applyTransactions(
            transact(p, Head(txs).senderAddress, Head(txs).recipientAddress, Head(txs).value),
            Tail(txs))

applyTransactionsFromBlock(p, block) == applyTransactions(p, block.transactions)

RECURSIVE applyBlocks(_, _)
applyBlocks(p, blks) ==
    IF blks = <<>> THEN p
    ELSE applyBlocks(applyTransactionsFromBlock(p, Head(blks)), Tail(blks))

\* UTXOPool.constructor
UTXOPool(blks) == applyBlocks(EmptyPool, blks)

(***************************************************************************)
(* The level store.                                                        *)
(***************************************************************************)
CountAbsent == [kind |-> "absent", val |-> 0]
CountNum(n) == [kind |-> "num", val |-> n]
CountNaN == [kind |-> "nan", val |-> 0]

BlockRecord(b) == [ok |-> TRUE, val |-> b]
CorruptRecord == [ok |-> FALSE, val |-> GENESIS_BLOCK]
EmptyDb == [k \in {} |-> CorruptRecord]

(***************************************************************************)
(* Blockchain.save, stopped after `writes` of its puts (all of them:       *)
(* writes = Len(blks) + 1).  The count record is put first, then one       *)
(* record per in-memory block under the key of its blockNumber.            *)
(***************************************************************************)
SaveWrites(blks) == Len(blks) + 1

saveCount(cnt, blks, writes) ==
    IF writes >= 1 THEN CountNum(Last(blks).blockNumber) ELSE cnt

put(db, key, rec) == [k \in (DOMAIN db) \cup {key} |-> IF k = key THEN rec ELSE db[k]]

RECURSIVE putBlocks(_, _, _, _)
putBlocks(db, blks, i, n) ==
    IF i > n THEN db
    ELSE putBlocks(put(db, blks[i].blockNumber, BlockRecord(blks[i])), blks, i + 1, n)

saveBlocks(db, blks, writes) ==
    putBlocks(db, blks, 1, IF writes >= 1 THEN writes - 1 ELSE 0)

(***************************************************************************)
(* Blockchain.getBlockCountOnDisk / loadBlockFromDisk / load.              *)
(***************************************************************************)
\* getBlockCountOnDisk without the isNaN test: a count that is not a number
\* is returned as it is, and load then treats it as a count within 1..BLOCKS_IN_MEM
getBlockCountOnDiskNoNaNTest(cnt) ==
    IF cnt.kind = "num" THEN cnt.val ELSE IF cnt.kind = "nan" THEN 1 ELSE 0

getBlockCountOnDisk(cnt) ==
    IF cnt.kind = "num" /\ cnt.val # 0 THEN cnt.val ELSE 0

RECURSIVE readRange(_, _, _)
readRange(db, i, endBlock) ==
    IF i > endBlock THEN <<>>
    ELSE IF i \in DOMAIN db THEN <<db[i].val>> \o readRange(db, i + 1, endBlock)
    ELSE readRange(db, i + 1, endBlock)

\* The in-memory sequence load leaves, and whether the verify() of its
\* finally clause threw.
load(cnt, db, loadAll) ==
    LET blockCount == getBlockCountOnDisk(cnt)
        startBlock == IF ~loadAll /\ blockCount > BLOCKS_IN_MEM
                      THEN blockCount - BLOCKS_IN_MEM + 1 ELSE 0
        endBlock == IF loadAll \/ blockCount > BLOCKS_IN_MEM
                    THEN blockCount ELSE BLOCKS_IN_MEM - 1
        decodeFails == \E i \in startBlock..endBlock : i \in DOMAIN db /\ ~db[i].ok
        loaded == IF blockCount = 0 \/ decodeFails THEN <<GENESIS_BLOCK>>
                  ELSE readRange(db, startBlock, endBlock)
    IN  [blocks |-> loaded, threw |-> ~verify(loaded, TRUE)]

(***************************************************************************)
(* Blockchain.getAllBlocks: the values the generator yields, in order; an  *)
(* absent key yields undefined.                                            *)
(***************************************************************************)
Undefined == [defined |-> FALSE, val |-> GENESIS_BLOCK]
Defined(b) == [defined |-> TRUE, val |-> b]

getAllBlocks(cnt, db) ==
    LET blockCount == getBlockCountOnDisk(cnt)
    IN  IF blockCount = 0 THEN <<>>
        ELSE [i \in 1..(blockCount + 1) |->
                IF (i - 1) \in DOMAIN db THEN Defined(db[i - 1].val) ELSE Undefined]

(***************************************************************************)
(* Blockchain.consensus: the scan for the best candidate, and the          *)
(* decision.                                                               *)
(***************************************************************************)
\* scanCandidates with candidates strictly shorter than the best skipped, so
\* that a later candidate of equal length takes the place of the best
RECURSIVE scanCandidatesLastOfTies(_, _, _, _)
scanCandidatesLastOfTies(blockchains, i, maxLength, bestCandidateIndex) ==
    IF i > Len(blockchains) THEN [maxLength |-> maxLength, bestCandidateIndex |-> bestCandidateIndex]
    ELSE IF Len(blockchains[i]) < maxLength
         THEN scanCandidatesLastOfTies(blockchains, i + 1, maxLength, bestCandidateIndex)
    ELSE IF verify(blockchains[i], FALSE)
         THEN scanCandidatesLastOfTies(blockchains, i + 1, Len(blockchains[i]), i)
    ELSE scanCandidatesLastOfTies(blockchains, i + 1, maxLength, bestCandidateIndex)

RECURSIVE scanCandidates(_, _, _, _)
scanCandidates(blockchains, i, maxLength, bestCandidateIndex) ==
    IF i > Len(blockchains) THEN [maxLength |-> maxLength, bestCandidateIndex |-> bestCandidateIndex]
    ELSE IF Len(blockchains[i]) <= maxLength
         THEN scanCandidates(blockchains, i + 1, maxLength, bestCandidateIndex)
    ELSE IF verify(blockchains[i], FALSE)
         THEN scanCandidates(blockchains, i + 1, Len(blockchains[i]), i)
    ELSE scanCandidates(blockchains, i + 1, maxLength, bestCandidateIndex)

(***************************************************************************)
(* Blockchain.getBlocksForFilter.  A filter is the set of the addresses    *)
(* its test accepts.  The result is the indices i of startIndex ..         *)
(* startIndex + depth - 1, ascending, for which this.blocks[i] (the first  *)
(* in-memory block has index 0) holds a transaction the filter accepts;    *)
(* reading the transactions of an index past the end throws.               *)
(***************************************************************************)
bloomFilterTest(bloomFilter, address) == address \in bloomFilter

possibleTransactions(block, bloomFilter) ==
    SelectSeq(block.transactions,
              LAMBDA transaction : \/ bloomFilterTest(bloomFilter, transaction.senderAddress)
                                   \/ bloomFilterTest(bloomFilter, transaction.recipientAddress))

RECURSIVE filterLoop(_, _, _, _, _)
filterLoop(blks, bloomFilter, i, endIndex, acc) ==
    IF i >= endIndex THEN [threw |-> FALSE, blocks |-> acc]
    ELSE IF i + 1 > Len(blks) THEN [threw |-> TRUE, blocks |-> acc]
    ELSE filterLoop(blks, bloomFilter, i + 1, endIndex,
                    IF Len(possibleTransactions(blks[i + 1], bloomFilter)) > 0
                    THEN Append(acc, i) ELSE acc)

getBlocksForFilter(blks, bloomFilter, startIndex, depth) ==
    filterLoop(blks, bloomFilter, startIndex, startIndex + depth, <<>>)

(***************************************************************************)
(* TransactionPool: the cache file and the constructor.  loadFromDisk is   *)
(* called by the constructor before storagePath is assigned.               *)
(***************************************************************************)
FileAbsent == [kind |-> "absent", txs |-> <<>>]
FileOf(txs) == [kind |-> "ok", txs |-> txs]
FileCorrupt == [kind |-> "corrupt", txs |-> <<>>]

saveToDisk(pending) == FileOf(pending)

\* The mempool loadFromDisk leaves, and whether readFileSync / JSON.parse threw.
loadFromDisk(storagePathSet, file) ==
    IF ~storagePathSet THEN [memPool |-> <<>>, threw |-> FALSE]
    ELSE IF file.kind = "ok" THEN [memPool |-> file.txs, threw |-> FALSE]
    ELSE [memPool |-> <<>>, threw |-> TRUE]

TransactionPoolNew(file) == loadFromDisk(FALSE, file)

(***************************************************************************)
(* Candidate chains handed to consensus: chains mined by two peers, and    *)
(* chains that are not valid.                                              *)
(***************************************************************************)
RECURSIVE PeerChain(_, _, _)
PeerChain(id, n, ts) ==
    IF n <= 1 THEN <<GENESIS_BLOCK>>
    ELSE LET c == PeerChain(id, n - 1, ts)
         IN  Append(c, mineBlock(c, <<Transaction(MINING_SENDER, id, MINING_REWARD)>>, ts))

MaxCands == 2           \* candidate chains in one consensus call
LongLen == BLOCKS_IN_MEM + 2

ChainP == PeerChain("P", LongLen, 1)
ChainQ == PeerChain("Q", 3, 2)
\* block 2 of a valid chain with its reward redirected, hash links not redone
Forged == [SubSeq(ChainP, 1, 5) EXCEPT ![2].transactions = <<Transaction(MINING_SENDER, "Q", MINING_REWARD)>>]
Candidates ==
    {SubSeq(ChainP, 1, n) : n \in {1, 3, LongLen}} \cup {ChainQ, Forged, <<>>}

CandidateLists == UNION {[1..n -> Candidates] : n \in 0..MaxCands}

\* The scan depends on the candidates alone: its result for each list.
ScanTable == [cs \in CandidateLists |-> scanCandidates(cs, 1, 0, 0)] @@ <<>>

\* bestCandidateIndex is 0 when there is none (-1 in the source, whose indices start at 0).
consensusBest(blockchains) == ScanTable[blockchains].bestCandidateIndex

consensusReplaces(blks, blockchains) ==
    LET best == ScanTable[blockchains]
    IN  /\ best.bestCandidateIndex # 0
        /\ (best.maxLength > Len(blks) \/ ~verify(blks, FALSE))

Senders == {"A"}
Recipients == {"A", "B"}
SubmitValues == {10}

(***************************************************************************)
(* State.                                                                  *)
(***************************************************************************)
Op(name, ret) == [name |-> name, ret |-> ret]

\* The process is running unless its constructor threw.
Up == ~(op.name \in {"restart", "crashRestart"} /\ ~op.ret)

Init ==
    /\ blocks = <<GENESIS_BLOCK>>
    /\ memPool = <<>>
    /\ pool = UTXOPool(<<GENESIS_BLOCK>>)
    /\ dbCount = CountAbsent
    /\ dbBlocks = EmptyDb
    /\ cacheFile = FileAbsent
    /\ clock = 1
    /\ nsub = 0
    /\ nmine = 0
    /\ nadopt = 0
    /\ ncrash = 0
    /\ chain = <<GENESIS_BLOCK>>
    /\ op = Op("init", TRUE)

\* the wall clock advances
Tick ==
    /\ clock < MaxClock
    /\ clock' = clock + 1
    /\ op' = Op("tick", TRUE)
    /\ UNCHANGED <<blocks, memPool, pool, dbCount, dbBlocks, cacheFile, nsub, nmine, nadopt, ncrash, chain>>

\* the setInterval callback of startDiskTimer
DiskTimer ==
    /\ Up
    /\ cacheFile' = saveToDisk(memPool)
    /\ op' = Op("saveToDisk", TRUE)
    /\ UNCHANGED <<blocks, memPool, pool, dbCount, dbBlocks, clock, nsub, nmine, nadopt, ncrash, chain>>

submitTransaction(senderAddress, recipientAddress, value) ==
    /\ Up
    /\ nsub < MaxSubmit
    /\ memPool' = Append(memPool, Transaction(senderAddress, recipientAddress, value))
    /\ nsub' = nsub + 1
    /\ op' = Op("submitTransaction", TRUE)
    /\ UNCHANGED <<blocks, pool, dbCount, dbBlocks, cacheFile, clock, nmine, nadopt, ncrash, chain>>

(***************************************************************************)
(* Blockchain.createBlock with addBlock, as the values it computes.        *)
(***************************************************************************)
createTransactions(pending) ==
    <<Transaction(MINING_SENDER, NodeId, MINING_REWARD)>> \o pending

\* addBlock: the sequence after the push, whether it saves, the sequence after the splice
addBlockPushed(blks, block) == Append(blks, block)
addBlockSaves(blks, block) == Len(addBlockPushed(blks, block)) > BLOCKS_IN_MEM
addBlock(blks, block) ==
    LET pushed == addBlockPushed(blks, block)
    IN  IF Len(pushed) > BLOCKS_IN_MEM
        THEN SubSeq(pushed, Len(pushed) - BLOCKS_IN_MEM + 1, Len(pushed))
        ELSE pushed

createBlock ==
    /\ Up
    /\ nmine < MaxMine
    /\ nmine' = nmine + 1
    /\ LET newBlock == mineBlock(blocks, createTransactions(memPool), clock)
           pushed == addBlockPushed(blocks, newBlock)
           kept == addBlock(blocks, newBlock)
           cnt1 == IF addBlockSaves(blocks, newBlock)
                   THEN saveCount(dbCount, pushed, SaveWrites(pushed)) ELSE dbCount
           db1 == IF addBlockSaves(blocks, newBlock)
                  THEN saveBlocks(dbBlocks, pushed, SaveWrites(pushed)) ELSE dbBlocks
       IN  /\ blocks' = kept
           /\ pool' = applyTransactionsFromBlock(pool, newBlock)
           /\ memPool' = <<>>
           /\ dbCount' = saveCount(cnt1, kept, SaveWrites(kept))
           /\ dbBlocks' = saveBlocks(db1, kept, SaveWrites(kept))
           /\ chain' = Append(SubSeq(chain, 1, Min(newBlock.blockNumber, Len(chain))), newBlock)
    /\ op' = Op("createBlock", TRUE)
    /\ UNCHANGED <<cacheFile, clock, nsub, nadopt, ncrash>>

\* consensus with the best candidate taken and saved whenever there is one,
\* and the comparison with the local chain deciding the result alone
consensusTakesBest(blockchains) ==
    /\ Up
    /\ (consensusBest(blockchains) # 0 => nadopt < MaxAdopt)
    /\ IF consensusBest(blockchains) # 0
       THEN LET adopted == blockchains[consensusBest(blockchains)]
            IN  /\ blocks' = adopted
                /\ dbCount' = saveCount(dbCount, adopted, SaveWrites(adopted))
                /\ dbBlocks' = saveBlocks(dbBlocks, adopted, SaveWrites(adopted))
                /\ chain' = adopted
                /\ nadopt' = nadopt + 1
                /\ op' = Op("consensus", consensusReplaces(blocks, blockchains))
       ELSE /\ UNCHANGED <<blocks, dbCount, dbBlocks, chain, nadopt>>
            /\ op' = Op("consensus", FALSE)
    /\ UNCHANGED <<memPool, pool, cacheFile, clock, nsub, nmine, ncrash>>

consensus(blockchains) ==
    /\ Up
    /\ (consensusReplaces(blocks, blockchains) => nadopt < MaxAdopt)
    /\ IF consensusReplaces(blocks, blockchains)
       THEN LET adopted == blockchains[consensusBest(blockchains)]
            IN  /\ blocks' = adopted
                /\ dbCount' = saveCount(dbCount, adopted, SaveWrites(adopted))
                /\ dbBlocks' = saveBlocks(dbBlocks, adopted, SaveWrites(adopted))
                /\ chain' = adopted
                /\ nadopt' = nadopt + 1
                /\ op' = Op("consensus", TRUE)
       ELSE /\ UNCHANGED <<blocks, dbCount, dbBlocks, chain, nadopt>>
            /\ op' = Op("consensus", FALSE)
    /\ UNCHANGED <<memPool, pool, cacheFile, clock, nsub, nmine, ncrash>>

(***************************************************************************)
(* Blockchain.constructor over a store and a cache file: the process is    *)
(* stopped between two operations and started again.                       *)
(***************************************************************************)
construct(cnt, db, file, name) ==
    LET tp == TransactionPoolNew(file)
        ld == load(cnt, db, FALSE)
    IN  /\ memPool' = tp.memPool
        /\ blocks' = ld.blocks
        /\ pool' = IF ld.threw THEN EmptyPool ELSE UTXOPool(ld.blocks)
        /\ op' = Op(name, ~tp.threw /\ ~ld.threw)

restart ==
    /\ construct(dbCount, dbBlocks, cacheFile, "restart")
    /\ UNCHANGED <<dbCount, dbBlocks, cacheFile, clock, nsub, nmine, nadopt, ncrash, chain>>

(***************************************************************************)
(* createBlock interrupted: the process stops after `done` of the store    *)
(* writes of createBlock (those of the save inside addBlock, when it       *)
(* saves, then those of the final save) and before the call returns; what  *)
(* was in memory is lost, and the process is started again.                *)
(***************************************************************************)
createBlockInterrupted ==
    /\ Up
    /\ nmine < MaxMine
    /\ ncrash < MaxCrash
    /\ LET newBlock == mineBlock(blocks, createTransactions(memPool), clock)
           pushed == addBlockPushed(blocks, newBlock)
           kept == addBlock(blocks, newBlock)
           w1 == IF addBlockSaves(blocks, newBlock) THEN SaveWrites(pushed) ELSE 0
           w2 == SaveWrites(kept)
       IN  \E done \in 0..(w1 + w2 - 1) :
              LET cnt1 == saveCount(dbCount, pushed, Min(done, w1))
                  db1 == saveBlocks(dbBlocks, pushed, Min(done, w1))
                  cnt2 == saveCount(cnt1, kept, Max(done - w1, 0))
                  db2 == saveBlocks(db1, kept, Max(done - w1, 0))
              IN  /\ dbCount' = cnt2
                  /\ dbBlocks' = db2
                  /\ construct(cnt2, db2, cacheFile, "crashRestart")
    /\ nmine' = nmine + 1
    /\ ncrash' = ncrash + 1
    /\ UNCHANGED <<cacheFile, clock, nsub, nadopt, chain>>

\* UTXOPool.transact called on the ledger as it stands
ledgerTransact(sender, recipient, amount) ==
    /\ pool' = transact(pool, sender, recipient, amount)
    /\ op' = [name |-> "transact", ret |-> TRUE, tx |-> Transaction(sender, recipient, amount)]
    /\ UNCHANGED <<blocks, memPool, dbCount, dbBlocks, cacheFile, clock, nsub, nmine, nadopt, ncrash, chain>>

(***************************************************************************)
(* Spec: the engine's operations on a node started over an empty store.    *)
(* The wall clock stands still here (SpecMine lets it advance) and the     *)
(* mempool cache timer does not run (SpecDisk runs it): no operation of    *)
(* this specification reads the cache file, and the clock is read only     *)
(* for the timestamp of a mined block.                                     *)
(***************************************************************************)
Next ==
    \/ \E s \in Senders, r \in Recipients, v \in SubmitValues : submitTransaction(s, r, v)
    \/ createBlock
    \/ \E cs \in CandidateLists : consensus(cs)
    \/ restart

Spec == Init /\ [][Next]_vars

(***************************************************************************)
(* SpecMine: a node started over an empty store that only receives         *)
(* transactions and mines, while the wall clock advances.                  *)
(***************************************************************************)
NextMine ==
    \/ Tick
    \/ \E s \in Senders, r \in Recipients, v \in SubmitValues : submitTransaction(s, r, v)
    \/ createBlock

SpecMine == Init /\ [][NextMine]_vars

(***************************************************************************)
(* SpecResolve: a node started over an empty store that mines and          *)
(* resolves, and is never stopped.                                         *)
(***************************************************************************)
NextResolve ==
    \/ createBlock
    \/ \E cs \in CandidateLists : consensus(cs)

SpecResolve == Init /\ [][NextResolve]_vars

(***************************************************************************)
(* SpecDisk: the mempool cache timer, and the process stopping inside      *)
(* createBlock.                                                            *)
(***************************************************************************)
NextDisk ==
    \/ DiskTimer
    \/ \E s \in Senders, r \in Recipients, v \in SubmitValues : submitTransaction(s, r, v)
    \/ createBlock
    \/ restart
    \/ createBlockInterrupted

SpecDisk == Init /\ [][NextDisk]_vars

(***************************************************************************)
(* SpecLedger: UTXOPool.transact on every ledger within MaxBalance.        *)
(***************************************************************************)
MaxBalance == 3         \* the ledger spec keeps |balance| within this
Amounts == (0 - 2)..2

NextLedger ==
    \E s \in Users \cup {NodeId}, r \in Users \cup {NodeId}, a \in Amounts :
        /\ \A x \in Addresses : transact(pool, s, r, a)[x] \in (0 - MaxBalance)..MaxBalance
        /\ ledgerTransact(s, r, a)

SpecLedger == Init /\ [][NextLedger]_vars

(***************************************************************************)
(* SpecStore: the constructor over a store found in any condition: count   *)
(* record absent, zero, a number or not a number; block records absent,    *)
(* decodable or not, linked or not.                                        *)
(***************************************************************************)
MaxStoreKey == 2        \* block records of the stores SpecStore starts from: keys 0..MaxStoreKey
StoreRecords ==
    {BlockRecord(GENESIS_BLOCK), BlockRecord(ChainP[2]), BlockRecord(ChainP[3]),
     BlockRecord(ChainQ[2]), CorruptRecord}
StoreCounts == {CountAbsent, CountNaN} \cup {CountNum(n) : n \in 0..MaxStoreKey}

InitStore ==
    /\ blocks = <<>>
    /\ memPool = <<>>
    /\ pool = EmptyPool
    /\ dbCount \in StoreCounts
    /\ \E keys \in SUBSET (0..MaxStoreKey) : dbBlocks \in [keys -> StoreRecords]
    /\ cacheFile \in {FileAbsent, FileCorrupt, FileOf(<<Transaction("A", "B", 10)>>)}
    /\ clock = 1
    /\ nsub = 0
    /\ nmine = 0
    /\ nadopt = 0
    /\ ncrash = 0
    /\ chain = <<>>
    /\ op = Op("stopped", TRUE)

NextStore == restart

SpecStore == InitStore /\ [][NextStore]_vars

(***************************************************************************)
(* SpecVerify: Blockchain.verify applied, in either mode, to every         *)
(* sequence of up to MaxVerifyLen blocks drawn from blocks of valid        *)
(* chains and blocks that break one rule each.                             *)
(***************************************************************************)
MaxVerifyLen == 3       \* blocks in a sequence handed to verify

\* mined on the genesis block, with a number that is not its position
Misnumbered ==
    mineLoop(Block(5, <<Transaction(MINING_SENDER, "P", MINING_REWARD)>>, 1, 0, sha256(GENESIS_BLOCK)))
\* block 1 of a valid chain with the nonce after the one that was mined
Unmined == [ChainP[2] EXCEPT !.nonce = @ + 1]
\* the genesis block with another timestamp
OtherGenesis == [GENESIS_BLOCK EXCEPT !.timestamp = 1]

VerifyBlocks ==
    {GENESIS_BLOCK, ChainP[2], ChainP[3], ChainQ[2], Misnumbered, Unmined, OtherGenesis}
VerifyInputs == UNION {[1..n -> VerifyBlocks] : n \in 0..MaxVerifyLen}

InitVerify ==
    /\ blocks \in VerifyInputs
    /\ memPool = <<>>
    /\ pool = EmptyPool
    /\ dbCount = CountAbsent
    /\ dbBlocks = EmptyDb
    /\ cacheFile = FileAbsent
    /\ clock = 1
    /\ nsub = 0
    /\ nmine = 0
    /\ nadopt = 0
    /\ ncrash = 0
    /\ chain = <<>>
    /\ op = Op("stopped", TRUE)

\* Blockchain.verify(blocks, partial) called on the sequence as it stands
verifyCall(partial) ==
    /\ op' = [name |-> "verify", ret |-> verify(blocks, partial), partial |-> partial]
    /\ UNCHANGED <<blocks, memPool, pool, dbCount, dbBlocks, cacheFile, clock, nsub, nmine, nadopt, ncrash, chain>>

NextVerify == \E partial \in BOOLEAN : verifyCall(partial)

SpecVerify == InitVerify /\ [][NextVerify]_vars

(***************************************************************************)
(* Properties.                                                             *)
(***************************************************************************)
RECURSIVE allTransactions(_)
allTransactions(blks) ==
    IF blks = <<>> THEN <<>>
    ELSE Head(blks).transactions \o allTransactions(Tail(blks))

\* credits of address a as recipient minus its debits as sender
RECURSIVE Net(_, _)
Net(a, txs) ==
    IF txs = <<>> THEN 0
    ELSE (IF Head(txs).recipientAddress = a THEN Head(txs).value ELSE 0)
         - (IF Head(txs).senderAddress = a THEN Head(txs).value ELSE 0)
         + Net(a, Tail(txs))

\* the persisted blocks 0..count, in ascending order
StoredChain == readRange(dbBlocks, 0, getBlockCountOnDisk(dbCount))

NoSelfTransfer(txs) == \A i \in 1..Len(txs) : txs[i].senderAddress # txs[i].recipientAddress

\* C1: consensus replaces the local chain only with a candidate that passes
\* full verification and is at least as long as the node's chain, block 0 up
\* to its head.
C1_ConsensusMonotone ==
    [][(op'.name = "consensus" /\ op'.ret)
        => (verify(blocks', FALSE) /\ Len(blocks') >= Len(chain))]_vars

\* C2: a createBlock that the process did not complete leaves, after the
\* restart, the mempool, the persisted chain and the ledger as they were when
\* it started.
C2_CreateBlockAtomic ==
    [][op'.name = "crashRestart"
        => (/\ memPool' = memPool
            /\ dbCount' = dbCount
            /\ dbBlocks' = dbBlocks
            /\ pool' = pool)]_vars

\* C3: after a restart every balance is the net of all transactions of the
\* persisted blocks 0..count.  Stated for histories without a transaction
\* whose sender is its recipient, so that the ledger's treatment of those
\* plays no part.
C3_LedgerReplaysHistory ==
    (op.name = "restart" /\ op.ret /\ NoSelfTransfer(allTransactions(StoredChain)))
        => \A a \in Addresses : getBalance(pool, a) = Net(a, allTransactions(StoredChain))

\* C4: transact(S, R, A) changes the balance of S by -A and that of R by +A
\* (net 0 when S = R) and leaves every other balance unchanged.
C4_TransactConserves ==
    [][op'.name = "transact"
        => \A a \in Addresses :
              getBalance(pool', a) = getBalance(pool, a) + Net(a, <<op'.tx>>)]_vars

\* C5: after load(false) on a store with count c > 0 the in-memory sequence is
\* exactly the stored blocks max(0, c-K+1)..c in ascending order, and the head
\* has number c.
C5_LoadWindow ==
    (op.name = "restart" /\ getBlockCountOnDisk(dbCount) > 0)
        => LET c == getBlockCountOnDisk(dbCount)
           IN  /\ blocks = readRange(dbBlocks, Max(0, c - BLOCKS_IN_MEM + 1), c)
               /\ blocks # <<>>
               /\ Last(blocks).blockNumber = c

\* C6: on a fresh node after n createBlock calls the in-memory sequence is the
\* min(K, n+1) most recent blocks, and getAllBlocks yields blocks 0..n, each
\* the block mined with that number.
C6_WindowRoundTrip ==
    /\ Len(chain) = nmine + 1
    /\ blocks = SubSeq(chain, Len(chain) - Min(BLOCKS_IN_MEM, nmine + 1) + 1, Len(chain))
    /\ getAllBlocks(dbCount, dbBlocks) = [i \in 1..(nmine + 1) |-> Defined(chain[i])]

\* C7: the mempool after construction is the last snapshot in the cache file;
\* it is empty when the file is absent; it is empty and construction does not
\* fail when the file is corrupt.
C7_MempoolRestore ==
    [][op'.name = "restart"
        => (/\ cacheFile.kind = "ok" => memPool' = cacheFile.txs
            /\ cacheFile.kind = "absent" => memPool' = <<>>
            /\ cacheFile.kind = "corrupt"
                  => (memPool' = <<>> /\ ~TransactionPoolNew(cacheFile).threw))]_vars

\* C8: load lets no exception escape and leaves an in-memory chain that passes
\* partial verification or is [genesis].
C8_LoadFailSoft ==
    op.name = "restart"
        => (op.ret /\ (verify(blocks, TRUE) \/ blocks = <<GENESIS_BLOCK>>))

\* C9: with the count record absent, zero or not a number, the chain after
\* load is exactly [genesis], it passes full verification and no exception
\* escapes.
CountMissing == dbCount.kind \in {"absent", "nan"} \/ (dbCount.kind = "num" /\ dbCount.val = 0)

C9_CountlessStoreGivesGenesis ==
    (op.name = "restart" /\ CountMissing)
        => (/\ Len(blocks) = 1
            /\ blocks[1].blockNumber = 0
            /\ blocks[1].transactions = <<>>
            /\ blocks[1].timestamp = 0
            /\ blocks[1].nonce = 0
            /\ blocks[1].prevBlock = FIAT_LUX
            /\ verify(blocks, FALSE)
            /\ op.ret)

C9_Witness ==
    /\ op.name = "restart"
    /\ dbCount = CountNaN
    /\ 1 \in DOMAIN dbBlocks
    /\ 0 \in DOMAIN dbBlocks /\ ~dbBlocks[0].ok
    /\ blocks = <<GENESIS_BLOCK>>

\* C10: the block createBlock mines has number head + 1, previous hash
\* hash(head), the given transactions in order, a hash within the target, and
\* the smallest nonce whose hash is within the target.
C10_MiningResult ==
    [][op'.name = "createBlock"
        => LET b == Last(blocks')
               head == Last(blocks)
           IN  /\ b.blockNumber = head.blockNumber + 1
               /\ b.prevBlock = sha256(head)
               /\ b.transactions = createTransactions(memPool)
               /\ b.timestamp = clock
               /\ isPoWValid(sha256(b))
               /\ b.nonce >= 0
               /\ \A n \in 0..(b.nonce - 1) : ~isPoWValid(sha256([b EXCEPT !.nonce = n]))]_vars

C10_Witness ==
    /\ op.name = "createBlock"
    /\ Last(blocks).nonce > 0
    /\ Len(Last(blocks).transactions) > 1
    /\ Last(blocks).blockNumber > BLOCKS_IN_MEM

\* C11: consensus takes as best the first candidate, in list order, among the
\* candidates of maximal length that pass full verification; it replaces the
\* in-memory chain with it and returns true exactly when there is such a
\* candidate and it is strictly longer than the in-memory chain or the
\* in-memory chain fails full verification; otherwise it returns false and
\* keeps the chain.
C11ValidIndices(cs) == {i \in 1..Len(cs) : verify(cs[i], FALSE)}
C11Best(cs) ==
    IF C11ValidIndices(cs) = {} THEN 0
    ELSE CHOOSE i \in C11ValidIndices(cs) :
            \A j \in C11ValidIndices(cs) :
                \/ Len(cs[j]) < Len(cs[i])
                \/ (Len(cs[j]) = Len(cs[i]) /\ i <= j)
C11BestTable == [cs \in CandidateLists |-> C11Best(cs)] @@ <<>>

C11_ConsensusDecision ==
    [][\A cs \in CandidateLists :
          (op'.name = "consensus" /\ consensus(cs))
              => LET best == C11BestTable[cs]
                     replaces == /\ best # 0
                                 /\ (Len(cs[best]) > Len(blocks) \/ ~verify(blocks, FALSE))
                 IN  /\ op'.ret = replaces
                     /\ replaces => blocks' = cs[best]
                     /\ ~replaces => blocks' = blocks]_vars

\* a replacement by the valid chain of peer Q, of 3 blocks, on a node whose
\* own chain had 3 valid blocks or fewer
C11_Witness ==
    /\ op.name = "consensus"
    /\ op.ret
    /\ blocks = ChainQ
    /\ dbCount = CountNum(2)

\* C12: after every completed createBlock, consensus and restart, every block
\* number 0..count has a record in the store, and getAllBlocks yields exactly
\* count + 1 blocks, numbered 0..count in ascending order, none absent; with
\* count = 0 it yields the genesis block.
C12_StoreComplete ==
    (op.name \in {"createBlock", "consensus", "restart"} /\ Up)
        => LET count == getBlockCountOnDisk(dbCount)
               yielded == getAllBlocks(dbCount, dbBlocks)
           IN  /\ \A n \in 0..count : n \in DOMAIN dbBlocks /\ dbBlocks[n].ok
               /\ Len(yielded) = count + 1
               /\ \A i \in 1..Len(yielded) :
                     yielded[i].defined /\ yielded[i].val.blockNumber = i - 1
               /\ count = 0 => yielded = <<Defined(GENESIS_BLOCK)>>

\* C13: a completed createBlock yields a block whose transactions are the
\* coinbase transaction (MINING_SENDER to the node, MINING_REWARD) followed by
\* the mempool in order, whose number is that of the previous head plus one
\* and whose previous hash is the hash of the previous head; afterwards the
\* mempool is empty, the block is the in-memory head, the persisted count is
\* its number, and every balance has changed by the net effect of the block's
\* transactions.
C13_CreateBlockPost ==
    [][op'.name = "createBlock"
        => LET b == Last(blocks')
               head == Last(blocks)
           IN  /\ b.transactions = <<Transaction(MINING_SENDER, NodeId, MINING_REWARD)>> \o memPool
               /\ b.blockNumber = head.blockNumber + 1
               /\ b.prevBlock = sha256(head)
               /\ memPool' = <<>>
               /\ dbCount' = CountNum(b.blockNumber)
               /\ b.blockNumber \in DOMAIN dbBlocks' /\ dbBlocks'[b.blockNumber] = BlockRecord(b)
               /\ \A a \in Addresses :
                     getBalance(pool', a) = getBalance(pool, a) + Net(a, b.transactions)]_vars

\* C14: for the filter that accepts address A alone and every range of
\* indices inside the in-memory sequence, getBlocksForFilter returns, in
\* ascending order, exactly the numbers i of the range whose block number i of
\* the node's chain holds a transaction with sender or recipient A, also when
\* the in-memory window no longer starts at block 0.
C14Mentions(block, a) ==
    \E k \in 1..Len(block.transactions) :
        block.transactions[k].senderAddress = a \/ block.transactions[k].recipientAddress = a

RECURSIVE C14Expected(_, _, _)
C14Expected(a, i, endIndex) ==
    IF i >= endIndex THEN <<>>
    ELSE (IF i + 1 <= Len(chain) /\ C14Mentions(chain[i + 1], a) THEN <<i>> ELSE <<>>)
         \o C14Expected(a, i + 1, endIndex)

C14_FilterQuery ==
    \A startIndex \in 0..Len(blocks) :
        \A depth \in 0..(Len(blocks) - startIndex) :
            LET result == getBlocksForFilter(blocks, {"A"}, startIndex, depth)
            IN  /\ ~result.threw
                /\ result.blocks = C14Expected("A", startIndex, startIndex + depth)

\* C15: verify returns a boolean for every block sequence; false for the
\* empty sequence in both modes; true in either mode only if every block
\* after the first carries the hash of its predecessor and has a hash within
\* the target; in full mode true exactly when, in addition, the first block is
\* the genesis block and every block's number is its position; in partial
\* mode those two tests are not made.
C15Linked(blks) ==
    ~ \E i \in 2..Len(blks) :
         blks[i].prevBlock # sha256(blks[i - 1]) \/ sha256(blks[i]) > TARGET
C15Numbered(blks) ==
    /\ blks[1].blockNumber = 0 /\ blks[1].transactions = <<>> /\ blks[1].timestamp = 0
    /\ blks[1].nonce = 0 /\ blks[1].prevBlock = FIAT_LUX
    /\ ~ \E i \in 2..Len(blks) : blks[i].blockNumber # i - 1

C15_Verifier ==
    [][op'.name = "verify"
        => /\ op'.ret \in BOOLEAN
           /\ blocks = <<>> => ~op'.ret
           /\ op'.ret => C15Linked(blocks)
           /\ ~op'.partial => (op'.ret <=> (blocks # <<>> /\ C15Linked(blocks) /\ C15Numbered(blocks)))
           /\ op'.partial => (op'.ret <=> (blocks # <<>> /\ C15Linked(blocks)))]_vars

\* a sequence that passes in partial mode and whose numbers are not positions
C15_Witness ==
    /\ op.name = "verify"
    /\ op.partial
    /\ op.ret
    /\ blocks = <<GENESIS_BLOCK, Misnumbered>>

\* C16: a consensus call that returns false (no candidate, no candidate that
\* passes verification, or a best candidate not longer than a local chain
\* that passes verification) leaves the in-memory chain, the count record,
\* every block record, the ledger and the mempool as they were.
C16_NoReplacementNoChange ==
    [][(op'.name = "consensus" /\ ~op'.ret)
        => (/\ blocks' = blocks
            /\ dbCount' = dbCount
            /\ dbBlocks' = dbBlocks
            /\ pool' = pool
            /\ memPool' = memPool
            /\ cacheFile' = cacheFile)]_vars

\* no replacement on a node that has mined three blocks and holds a pending
\* transaction
C16_Witness ==
    /\ op.name = "consensus"
    /\ ~op.ret
    /\ Len(blocks) = 4
    /\ verify(blocks, FALSE)
    /\ dbCount = CountNum(3)
    /\ memPool # <<>>

\* C17: on a node started fresh and never stopped, the balance of every
\* address is the result of replaying, in order, every transaction of every
\* block of the node's current chain, also after consensus has replaced the
\* chain.
C17_LedgerFollowsChain ==
    \A a \in Addresses : getBalance(pool, a) = getBalance(UTXOPool(chain), a)

\* C18: after every completed operation the in-memory sequence holds at most
\* BLOCKS_IN_MEM blocks, and they are the most recent blocks of the node's
\* chain; also right after consensus has adopted a candidate of more than
\* BLOCKS_IN_MEM blocks.
C18_BoundedWindow ==
    Up => /\ Len(blocks) <= BLOCKS_IN_MEM
          /\ Len(blocks) <= Len(chain)
          /\ blocks = SubSeq(chain, Len(chain) - Len(blocks) + 1, Len(chain))

RECURSIVE C20Total(_, _)
C20Total(p, addresses) ==
    IF addresses = {} THEN 0
    ELSE LET a == CHOOSE x \in addresses : TRUE
         IN  getBalance(p, a) + C20Total(p, addresses \ {a})

C20_ValueConserved == C20Total(pool, Addresses) = 0

\* C21: after any prefix of the store writes of save, and so after the
\* process has stopped between two of them and has been started again, every
\* block number 0..blockCount of the count record has a block record in the
\* store: the count record is never ahead of the block records it covers.
C21Covered ==
    dbCount.kind = "num"
        => \A n \in 0..dbCount.val : n \in DOMAIN dbBlocks /\ dbBlocks[n].ok

C21_PersistOrdering == op.name = "crashRestart" => C21Covered

====
